---------------------------- MODULE Spec2Model ----------------------------
(***************************************************************************)
(* A model of apps/waveform/views.py of finnhem/mywave: the lazily loaded  *)
(* VCD parsing libraries (ensure_parsers_loaded), the extraction of signal *)
(* data from a decoded VCD object (get_signal_data) and the two-tier       *)
(* orchestration of the decoders (parse_vcd_file).                         *)
(*                                                                         *)
(* Python values are tagged records ([k |-> "none"], [k |-> "num", ...]).  *)
(* Python strings whose characters matter (paths, units) are sequences of  *)
(* one-character strings.  Python floats are exact decimals m * 10^e.      *)
(***************************************************************************)
EXTENDS Integers, Sequences, FiniteSets, TLC

VARIABLES
    \* module globals of views.py (lines 20-22)
    PARSERS_AVAILABLE, vcdvcd, VcdParser,
    \* the environment of the process: settings.WAVEFORM_ENABLE_VCD_PARSING and
    \* whether "import vcdvcd" / "from pyDigitalWaveTools..." succeed
    settingsEnabled, libsImportable,
    \* threads running ensure_parsers_loaded: position, calls made, return value
    tpc, ncalls, tret,
    \* history of ensure_parsers_loaded: capability checks performed, calls
    \* completed, writes to the globals made after the first call completed
    checks, completed, lateWrites,
    \* one request running parse_vcd_file: position, the file, the locals
    \* (parsers_available, vcdvcd_module, vcd_parser_class), the decoder
    \* invocations so far, the way the call ended, requests served
    ppc, file, plocals, calls, outcome, nreq,
    \* one call of get_signal_data: position, its argument, its return value
    epc, vcd, gsd,
    \* the index view: the file of the last POST, the response to the last
    \* request, the VCDFile rows created, the requests handled
    upload, response, db, nposts

vars == <<PARSERS_AVAILABLE, vcdvcd, VcdParser, settingsEnabled, libsImportable,
          tpc, ncalls, tret, checks, completed, lateWrites,
          ppc, file, plocals, calls, outcome, nreq, epc, vcd, gsd,
          upload, response, db, nposts>>

globalVars == <<PARSERS_AVAILABLE, vcdvcd, VcdParser>>
envVars    == <<settingsEnabled, libsImportable>>
loadVars   == <<tpc, ncalls, tret, checks, completed, lateWrites>>
parseVars  == <<ppc, file, plocals, calls, outcome, nreq>>
gsdVars    == <<epc, vcd, gsd>>
viewVars   == <<upload, response, db, nposts>>

----------------------------------------------------------------------------
(* Bounds *)

\* threads that call ensure_parsers_loaded concurrently
NumThreads == 2
\* calls of ensure_parsers_loaded each thread makes
MaxCalls == 2

----------------------------------------------------------------------------
(* Python values *)

None == [k |-> "none"]
\* the imported module / class objects
VcdvcdModule   == [k |-> "module", name |-> "vcdvcd"]
VcdParserClass == [k |-> "class", name |-> "VcdParser"]

\* bool() of a tuple: a tuple is falsy only when it is empty
TupleTruthy(t) == Len(t) > 0

----------------------------------------------------------------------------
(* Initial values shared by the specifications *)

Threads == 1..NumThreads

GlobalsInit ==
    /\ PARSERS_AVAILABLE = FALSE
    /\ vcdvcd = None
    /\ VcdParser = None

EnvInit ==
    /\ settingsEnabled \in BOOLEAN
    /\ libsImportable \in BOOLEAN

LoadIdle ==
    /\ tpc = [t \in Threads |-> "idle"]
    /\ ncalls = [t \in Threads |-> 0]
    /\ tret = [t \in Threads |-> None]
    /\ checks = 0
    /\ completed = 0
    /\ lateWrites = FALSE

ParseIdle ==
    /\ ppc = "idle"
    /\ file = None
    /\ plocals = None
    /\ calls = <<>>
    /\ outcome = None
    /\ nreq = 0

GsdIdle ==
    /\ epc = "idle"
    /\ vcd = None
    /\ gsd = None

ViewIdle ==
    /\ upload = None
    /\ response = None
    /\ db = <<>>
    /\ nposts = 0

----------------------------------------------------------------------------
(* ensure_parsers_loaded, statement by statement, run by several threads *)

\* the call is entered
LoadCall(t) ==
    /\ tpc[t] = "idle"
    /\ ncalls[t] < MaxCalls
    /\ tpc' = [tpc EXCEPT ![t] = "L37"]
    /\ ncalls' = [ncalls EXCEPT ![t] = @ + 1]
    /\ tret' = [tret EXCEPT ![t] = None]
    /\ UNCHANGED <<globalVars, envVars, checks, completed, lateWrites,
                   parseVars, gsdVars, viewVars>>

\* line 37-38: only a cached True short-circuits
LoadCheckCache(t) ==
    /\ tpc[t] = "L37"
    /\ IF PARSERS_AVAILABLE = TRUE
         THEN /\ tret' = [tret EXCEPT ![t] = <<PARSERS_AVAILABLE, vcdvcd, VcdParser>>]
              /\ tpc' = [tpc EXCEPT ![t] = "idle"]
              /\ completed' = completed + 1
         ELSE /\ tpc' = [tpc EXCEPT ![t] = "L43"]
              /\ UNCHANGED <<tret, completed>>
    /\ UNCHANGED <<globalVars, envVars, ncalls, checks, lateWrites,
                   parseVars, gsdVars, viewVars>>

\* lines 41-46: the capability check starts with the settings lookup
LoadSettings(t) ==
    /\ tpc[t] = "L43"
    /\ checks' = checks + 1
    /\ IF ~settingsEnabled
         THEN /\ PARSERS_AVAILABLE' = FALSE
              /\ lateWrites' = (lateWrites \/ completed > 0)
              /\ tret' = [tret EXCEPT ![t] = <<FALSE, None, None>>]
              /\ tpc' = [tpc EXCEPT ![t] = "idle"]
              /\ completed' = completed + 1
         ELSE /\ tpc' = [tpc EXCEPT ![t] = "L49"]
              /\ UNCHANGED <<PARSERS_AVAILABLE, lateWrites, tret, completed>>
    /\ UNCHANGED <<vcdvcd, VcdParser, envVars, ncalls, parseVars, gsdVars, viewVars>>

\* lines 48-50 and 57-59: the imports; an ImportError stores False
LoadImport(t) ==
    /\ tpc[t] = "L49"
    /\ IF libsImportable
         THEN /\ tpc' = [tpc EXCEPT ![t] = "L53"]
              /\ UNCHANGED <<PARSERS_AVAILABLE, lateWrites>>
         ELSE /\ PARSERS_AVAILABLE' = FALSE
              /\ lateWrites' = (lateWrites \/ completed > 0)
              /\ tpc' = [tpc EXCEPT ![t] = "L61"]
    /\ UNCHANGED <<vcdvcd, VcdParser, envVars, ncalls, tret, checks, completed,
                   parseVars, gsdVars, viewVars>>

\* line 53
LoadStoreVcdvcd(t) ==
    /\ tpc[t] = "L53"
    /\ vcdvcd' = VcdvcdModule
    /\ lateWrites' = (lateWrites \/ completed > 0)
    /\ tpc' = [tpc EXCEPT ![t] = "L54"]
    /\ UNCHANGED <<PARSERS_AVAILABLE, VcdParser, envVars, ncalls, tret, checks,
                   completed, parseVars, gsdVars, viewVars>>

\* line 54
LoadStoreVcdParser(t) ==
    /\ tpc[t] = "L54"
    /\ VcdParser' = VcdParserClass
    /\ lateWrites' = (lateWrites \/ completed > 0)
    /\ tpc' = [tpc EXCEPT ![t] = "L55"]
    /\ UNCHANGED <<PARSERS_AVAILABLE, vcdvcd, envVars, ncalls, tret, checks,
                   completed, parseVars, gsdVars, viewVars>>

\* line 55
LoadStoreFlag(t) ==
    /\ tpc[t] = "L55"
    /\ PARSERS_AVAILABLE' = TRUE
    /\ lateWrites' = (lateWrites \/ completed > 0)
    /\ tpc' = [tpc EXCEPT ![t] = "L61"]
    /\ UNCHANGED <<vcdvcd, VcdParser, envVars, ncalls, tret, checks, completed,
                   parseVars, gsdVars, viewVars>>

\* line 61
LoadReturn(t) ==
    /\ tpc[t] = "L61"
    /\ tret' = [tret EXCEPT ![t] = <<PARSERS_AVAILABLE, vcdvcd, VcdParser>>]
    /\ tpc' = [tpc EXCEPT ![t] = "idle"]
    /\ completed' = completed + 1
    /\ UNCHANGED <<globalVars, envVars, ncalls, checks, lateWrites,
                   parseVars, gsdVars, viewVars>>

\* ensure_parsers_loaded run to completion by one caller with no other
\* thread in between: the globals it leaves and the tuple it returns
ensure_parsers_loaded(avail, mod, cls, enabled, importable) ==
    IF avail = TRUE
      THEN [avail |-> avail, mod |-> mod, cls |-> cls, ret |-> <<avail, mod, cls>>]
      ELSE IF ~enabled
        THEN [avail |-> FALSE, mod |-> mod, cls |-> cls, ret |-> <<FALSE, None, None>>]
        ELSE IF importable
          THEN [avail |-> TRUE, mod |-> VcdvcdModule, cls |-> VcdParserClass,
                ret |-> <<TRUE, VcdvcdModule, VcdParserClass>>]
          ELSE [avail |-> FALSE, mod |-> mod, cls |-> cls, ret |-> <<FALSE, mod, cls>>]

----------------------------------------------------------------------------
(* Python floats, as exact decimals m * 10^e kept in normal form *)

RECURSIVE Norm(_)
Norm(d) ==
    IF d.m = 0 THEN [m |-> 0, e |-> 0]
    ELSE IF d.m % 10 = 0 THEN Norm([m |-> d.m \div 10, e |-> d.e + 1])
    ELSE d

Dec(m, e) == Norm([m |-> m, e |-> e])
Mul(a, b) == Norm([m |-> a.m * b.m, e |-> a.e + b.e])

\* a value float() accepts (an int, a float, a Decimal, a numeric string)
Num(m, e) == [k |-> "num", v |-> Dec(m, e)]
\* a Python str, by its characters
Str(chars) == [k |-> "str", s |-> chars]
\* a Python list
List(items) == [k |-> "list", s |-> items]
\* a Python tuple
Tuple(items) == [k |-> "tuple", items |-> items]
\* a key a dict does not hold, an attribute an object does not have
Absent == [k |-> "absent"]
\* a call that raises
Raises == [k |-> "raise"]

\* float(x) raises ValueError (a non-numeric string) or TypeError (None, a list)
\* unless x is numeric
Floatable(x) == x.k = "num"
Float(x) == x.v

\* str(x) of the values a unit or a sample value can be
PyStr(x) ==
    IF x.k = "str" THEN x.s
    ELSE IF x.k = "none" THEN <<"N", "o", "n", "e">>
    ELSE <<"?">>

\* str.lower(), character by character
LowerChar(c) ==
    CASE c = "A" -> "a" [] c = "B" -> "b" [] c = "C" -> "c" [] c = "D" -> "d"
      [] c = "N" -> "n" [] c = "P" -> "p" [] c = "S" -> "s" [] c = "V" -> "v"
      [] OTHER -> c
Lower(chars) == [i \in 1..Len(chars) |-> LowerChar(chars[i])]

\* ord() of the characters signal names are made of
Ord(c) ==
    CASE c = "." -> 46 [] c = "B" -> 66 [] c = "a" -> 97 [] c = "b" -> 98
      [] OTHER -> 0

\* x < y on str: by code point, a proper prefix first
RECURSIVE StrLess(_, _)
StrLess(x, y) ==
    IF y = <<>> THEN FALSE
    ELSE IF x = <<>> THEN TRUE
    ELSE IF Ord(Head(x)) # Ord(Head(y)) THEN Ord(Head(x)) < Ord(Head(y))
    ELSE StrLess(Tail(x), Tail(y))

----------------------------------------------------------------------------
(* get_signal_data: the timescale (lines 83-146) *)

NS == <<"n", "s">>
PS == <<"p", "s">>

\* line 84 and 88-90: a falsy or non-dict timescale is replaced by the default
DefaultTimescale ==
    [k |-> "dict", timescale |-> Absent, value |-> Num(1, 0),
     magnitude |-> Absent, unit |-> Str(NS)]

HasKey(d, key) == d[key] # Absent

TimescaleDict(raw) ==
    IF raw.k # "dict" THEN DefaultTimescale
    ELSE IF \A key \in {"timescale", "value", "magnitude", "unit"} : ~HasKey(raw, key)
      THEN DefaultTimescale
    ELSE raw

\* lines 94-130: the timescale value and unit
ParseTimescale(ts) ==
    IF HasKey(ts, "timescale")
      THEN IF ~Floatable(ts.timescale)
             THEN [value |-> Dec(1, 0), unit |-> NS]
           ELSE LET v == Float(ts.timescale) IN
             IF v = Dec(1, -12) THEN [value |-> Dec(1, 0), unit |-> PS]
             ELSE IF v = Dec(1, -11) THEN [value |-> Dec(10, 0), unit |-> PS]
             ELSE IF v = Dec(1, -10) THEN [value |-> Dec(100, 0), unit |-> PS]
             ELSE IF v = Dec(1, -9) THEN [value |-> Dec(1, 0), unit |-> NS]
             ELSE [value |-> Mul(v, Dec(1, 9)), unit |-> NS]
      ELSE LET value == IF HasKey(ts, "value") THEN ts.value ELSE Num(1, 0)
               unit  == IF HasKey(ts, "unit") THEN ts.unit ELSE Str(NS)
           IN IF ~Floatable(value)
                THEN [value |-> Dec(1, 0), unit |-> NS]
              ELSE [value |-> IF HasKey(ts, "magnitude")
                                THEN IF Floatable(ts.magnitude)
                                       THEN Mul(Float(value), Float(ts.magnitude))
                                       ELSE Dec(1, 0)
                                ELSE Float(value),
                    unit |-> Lower(PyStr(unit))]

\* the table with the entries of ps and fs exchanged
unit_map_swapped(u) ==
    CASE u = <<"s">> -> Dec(1, 9)
      [] u = <<"m", "s">> -> Dec(1, 6)
      [] u = <<"u", "s">> -> Dec(1, 3)
      [] u = <<"MICRO", "s">> -> Dec(1, 3)
      [] u = NS -> Dec(1, 0)
      [] u = PS -> Dec(1, -6)
      [] u = <<"f", "s">> -> Dec(1, -3)
      [] OTHER -> Absent

\* lines 135-143: ns per unit
unit_map(u) ==
    CASE u = <<"s">> -> Dec(1, 9)
      [] u = <<"m", "s">> -> Dec(1, 6)
      [] u = <<"u", "s">> -> Dec(1, 3)
      [] u = <<"MICRO", "s">> -> Dec(1, 3)
      [] u = NS -> Dec(1, 0)
      [] u = PS -> Dec(1, -3)
      [] u = <<"f", "s">> -> Dec(1, -6)
      [] OTHER -> Absent

\* an unknown unit taken for seconds
UnitMultiplierSeconds(u) == IF unit_map(u) = Absent THEN Dec(1, 9) ELSE unit_map(u)

\* unit_map.get(u, 1)
UnitMultiplier(u) == IF unit_map(u) = Absent THEN Dec(1, 0) ELSE unit_map(u)

\* line 145
ScaleFactor(ts) == Mul(UnitMultiplier(ts.unit), ts.value)

----------------------------------------------------------------------------
(* get_signal_data: the signals (lines 153-209) *)

\* lines 185-186
Coerce(value) == IF value.k \in {"str", "num", "bool"} THEN value ELSE Str(PyStr(value))

\* the loop left (break) at the first malformed record
RECURSIVE ProcessSamplesBreak(_, _)
ProcessSamplesBreak(tv, scale_factor) ==
    IF tv = <<>> THEN <<>>
    ELSE LET pair == Head(tv)
         IN IF pair.k # "tuple" \/ Len(pair.items) # 2 THEN <<>>
            ELSE IF ~Floatable(pair.items[1]) THEN <<>>
            ELSE <<[time |-> Mul(Float(pair.items[1]), scale_factor),
                    value |-> Coerce(pair.items[2])]>>
                   \o ProcessSamplesBreak(Tail(tv), scale_factor)

\* lines 171-193: the samples of one signal
RECURSIVE ProcessSamples(_, _)
ProcessSamples(tv, scale_factor) ==
    IF tv = <<>> THEN <<>>
    ELSE LET pair == Head(tv)
             rest == ProcessSamples(Tail(tv), scale_factor)
         IN IF pair.k # "tuple" \/ Len(pair.items) # 2 THEN rest
            ELSE IF ~Floatable(pair.items[1]) THEN rest
            ELSE <<[time |-> Mul(Float(pair.items[1]), scale_factor),
                    value |-> Coerce(pair.items[2])]>> \o rest

\* a signal without time-value data skipped like an empty signal object
ProcessSignalDropEmpty(v, signal_name, idx, scale_factor) ==
    IF signal_name.k # "str" \/ signal_name.s = <<>> THEN <<>>
    ELSE LET signal == v.sigs[signal_name.s] IN
      IF signal.k \in {"KeyError", "raise", "falsy"} THEN <<>>
      ELSE IF signal.tv = Absent \/ signal.tv = List(<<>>) THEN <<>>
      ELSE <<[name |-> signal_name.s,
              data |-> ProcessSamples(signal.tv.s, scale_factor),
              idx |-> idx]>>

\* lines 154-209: what one entry of signal_names adds to signals_data.  idx is
\* a history field, the position of the entry in signal_names.
ProcessSignal(v, signal_name, idx, scale_factor) ==
    IF signal_name.k # "str" \/ signal_name.s = <<>> THEN <<>>
    ELSE LET signal == v.sigs[signal_name.s] IN
      IF signal.k \in {"KeyError", "raise", "falsy"} THEN <<>>
      ELSE IF signal.tv = Absent \/ signal.tv = List(<<>>)
        THEN <<[name |-> signal_name.s, data |-> <<>>, idx |-> idx]>>
      ELSE <<[name |-> signal_name.s,
              data |-> ProcessSamples(signal.tv.s, scale_factor),
              idx |-> idx]>>

RECURSIVE ProcessSignals(_, _, _, _)
ProcessSignals(v, signal_names, n, scale_factor) ==
    IF n = 0 THEN <<>>
    ELSE ProcessSignals(v, signal_names, n - 1, scale_factor)
           \o ProcessSignal(v, signal_names[n], n, scale_factor)

\* an insertion that puts an entry before the entries of the same name
RECURSIVE InsertBeforeEqual(_, _)
InsertBeforeEqual(s, x) ==
    IF s = <<>> THEN <<x>>
    ELSE IF ~StrLess(Head(s).name, x.name) THEN <<x>> \o s
    ELSE <<Head(s)>> \o InsertBeforeEqual(Tail(s), x)

\* sorted(signals_data, key=lambda x: x["name"]): a stable sort
RECURSIVE InsertByName(_, _)
InsertByName(s, x) ==
    IF s = <<>> THEN <<x>>
    ELSE IF StrLess(x.name, Head(s).name) THEN <<x>> \o s
    ELSE <<Head(s)>> \o InsertByName(Tail(s), x)

RECURSIVE SortedByName(_)
SortedByName(s) ==
    IF s = <<>> THEN <<>>
    ELSE InsertByName(SortedByName(SubSeq(s, 1, Len(s) - 1)), s[Len(s)])

EmptyResult ==
    [signals |-> <<>>, timescale |-> [value |-> 1, unit |-> NS]]

\* an exception inside get_signal_data's outer try (lines 223-225)
GsdRaised(v) ==
    /\ v # None
    /\ \/ v.get_signals = Raises
       \/ /\ v.get_signals.s # <<>>
          /\ v.get_timescale = Raises

\* get_signal_data(vcd); loaded is what its call of ensure_parsers_loaded
\* returned
get_signal_data(loaded, v) ==
    IF ~TupleTruthy(loaded) THEN EmptyResult
    ELSE IF v = None THEN EmptyResult
    ELSE IF v.get_signals = Raises THEN EmptyResult
    ELSE IF v.get_signals.s = <<>> THEN EmptyResult
    ELSE IF v.get_timescale = Raises THEN EmptyResult
    ELSE LET signal_names == v.get_signals.s
             scale_factor == ScaleFactor(ParseTimescale(TimescaleDict(v.get_timescale)))
         IN [signals |-> SortedByName(ProcessSignals(v, signal_names,
                                                     Len(signal_names), scale_factor)),
             timescale |-> [value |-> 1, unit |-> NS]]

----------------------------------------------------------------------------
(* The decoded VCD objects get_signal_data is applied to *)

\* entries of signal_names
MaxSignals == 3
\* records of one signal's tv
MaxRecords == 3

SeqsUpTo(S, n) == UNION {[1..len -> S] : len \in 0..n}

NameA  == <<"a">>
NameAB == <<"a", "b">>
NameB  == <<"b">>
NameUB == <<"B">>
ValidNames == {NameA, NameAB, NameB, NameUB}
\* what vcd.get_signals() may hold: names, an empty name, a non-str
NameItems == {Str(nm) : nm \in ValidNames} \cup {Str(<<>>), None}

\* well-formed (time, value) pairs
Good1 == Tuple(<<Num(10, 0), Str(<<"0">>)>>)
Good2 == Tuple(<<Num(5000, 0), Str(<<"1">>)>>)
Good3 == Tuple(<<Num(0, 0), None>>)
\* malformed records: wrong arity, not a list or tuple, non-numeric time
BadArity1 == Tuple(<<Num(10, 0)>>)
BadArity3 == Tuple(<<Num(10, 0), Str(<<"0">>), Str(<<"0">>)>>)
NotASeq   == Num(10, 0)
BadTime   == Tuple(<<Str(<<"x">>), Str(<<"1">>)>>)
NoneTime  == Tuple(<<None, Str(<<"1">>)>>)
Malformed == {BadArity1, BadArity3, NotASeq, BadTime}
Records   == {Good1, Good2} \cup Malformed

\* a signal object with the given tv (Absent: no tv attribute)
Signal(tv) == [k |-> "signal", tv |-> tv]
KeyErrorSig == [k |-> "KeyError"]
FalsySig    == [k |-> "falsy"]
OneSample   == Signal(List(<<Good1>>))

Vcd(names, ts, sigs) ==
    [k |-> "vcd", get_signals |-> names, get_timescale |-> ts, sigs |-> sigs]

OneNs == [k |-> "dict", timescale |-> Absent, value |-> Num(1, 0),
          magnitude |-> Absent, unit |-> Str(NS)]

\* every order, repetition and invalid entry of the declared names, over a
\* few tables of signals
SortInputs ==
    {Vcd(List(names), OneNs, sigs) :
        names \in SeqsUpTo(NameItems, MaxSignals),
        sigs \in {[nm \in ValidNames |-> OneSample],
                  [nm \in ValidNames |-> IF nm = NameB THEN KeyErrorSig ELSE OneSample],
                  [nm \in ValidNames |-> IF nm = NameA THEN Signal(Absent)
                                         ELSE Signal(List(<<Good2>>))]}}

\* every tv of signal a, beside every kind of sibling b
SiblingSignals ==
    {KeyErrorSig, FalsySig, Raises, Signal(Absent), Signal(List(<<>>)),
     OneSample, Signal(List(<<NoneTime, Good3>>))}

RecordInputs ==
    {Vcd(List(names), OneNs,
         [nm \in ValidNames |-> IF nm = NameA THEN Signal(List(tv)) ELSE sib]) :
        names \in {<<Str(NameA)>>, <<Str(NameA), Str(NameB)>>, <<Str(NameB), Str(NameA)>>},
        tv \in SeqsUpTo(Records, MaxRecords),
        sib \in SiblingSignals}

\* what vcd.get_timescale() may return
SciValues == {Num(1, -12), Num(1, -11), Num(1, -10), Num(1, -9), Num(1, -6),
              Num(5, -9), Num(0, 0), Num(-1, -9), Str(<<"x">>)}
DictNumbers == {Absent, Num(1, 0), Num(10, 0), Num(0, 0), Num(-1, 0), Str(<<"x">>)}
Magnitudes  == {Absent, Num(1, 0), Num(1000, 0), Num(0, 0), Num(-1, 0), None}
Units == {Absent, Str(<<"s">>), Str(<<"m", "s">>), Str(<<"u", "s">>),
          Str(<<"MICRO", "s">>), Str(NS), Str(PS), Str(<<"f", "s">>),
          Str(<<"N", "S">>), Str(<<"P", "s">>), Str(<<"x", "s">>), None}
Timescales ==
    {[k |-> "dict", timescale |-> sci, value |-> Absent, magnitude |-> Absent,
      unit |-> u] : sci \in SciValues, u \in {Absent, Str(<<"x", "s">>)}}
    \cup {[k |-> "dict", timescale |-> Absent, value |-> val, magnitude |-> mag,
           unit |-> u] : val \in DictNumbers, mag \in Magnitudes, u \in Units}
    \cup {None, Str(<<"1", "n", "s">>), Raises}

ScaleInputs ==
    {Vcd(List(<<Str(NameA)>>), ts, [nm \in ValidNames |-> Signal(List(tv))]) :
        ts \in Timescales,
        tv \in {<<Good1>>, <<Good2>>, <<Good3, NotASeq, Good2>>}}

GsdInputs ==
    SortInputs \cup RecordInputs \cup ScaleInputs
      \cup {None, Vcd(Raises, OneNs, [nm \in ValidNames |-> OneSample])}

----------------------------------------------------------------------------
(* SpecGsd: get_signal_data applied to a decoded VCD object *)

\* lines 64-225, with the call of ensure_parsers_loaded at line 68
GetSignalData ==
    /\ epc = "idle"
    /\ LET loaded == ensure_parsers_loaded(PARSERS_AVAILABLE, vcdvcd, VcdParser,
                                           settingsEnabled, libsImportable)
       IN /\ PARSERS_AVAILABLE' = loaded.avail
          /\ vcdvcd' = loaded.mod
          /\ VcdParser' = loaded.cls
          /\ gsd' = get_signal_data(loaded.ret, vcd)
    /\ epc' = "done"
    /\ UNCHANGED <<envVars, loadVars, parseVars, vcd, viewVars>>

InitGsd ==
    /\ GlobalsInit
    /\ settingsEnabled = TRUE
    /\ libsImportable \in BOOLEAN
    /\ LoadIdle
    /\ ParseIdle
    /\ epc = "idle"
    /\ vcd \in GsdInputs
    /\ gsd = None
    /\ ViewIdle

NextGsd == GetSignalData

SpecGsd == InitGsd /\ [][NextGsd]_vars

----------------------------------------------------------------------------
(* SpecLoad: threads calling ensure_parsers_loaded *)

InitLoad == GlobalsInit /\ EnvInit /\ LoadIdle /\ ParseIdle /\ GsdIdle /\ ViewIdle

NextLoad ==
    \E t \in Threads :
        \/ LoadCall(t)
        \/ LoadCheckCache(t)
        \/ LoadSettings(t)
        \/ LoadImport(t)
        \/ LoadStoreVcdvcd(t)
        \/ LoadStoreVcdParser(t)
        \/ LoadStoreFlag(t)
        \/ LoadReturn(t)

SpecLoad == InitLoad /\ [][NextLoad]_vars

----------------------------------------------------------------------------
(* C5: over any sequence or interleaving of calls of ensure_parsers_loaded *)
(* the capability check (settings lookup plus import) is performed at most *)
(* once whatever its outcome, and once the first call has completed the    *)
(* flag PARSERS_AVAILABLE and the cached handles are never written again.  *)
C5_CheckedOnceThenReadOnly ==
    /\ checks <= 1
    /\ ~lateWrites

----------------------------------------------------------------------------
(* parse_vcd_file (lines 228-311) *)

\* requests served by the process
MaxRequests == 2

\* an exception object; detail is what the message is formatted with
Exc(type, text, detail) == [k |-> "exc", type |-> type, text |-> text, detail |-> detail]
ValidationError(text, detail) == Exc("ValidationError", text, detail)
\* the classes "except Exception" catches
ExceptionClasses ==
    {"Exception", "ValidationError", "ImportError", "OSError", "UnicodeDecodeError"}

RaiseOutcome(exc) == [k |-> "raise", exc |-> exc]
ReturnOutcome(value) == [k |-> "return", value |-> value]

\* str.endswith
EndsWith(chars, suffix) ==
    /\ Len(chars) >= Len(suffix)
    /\ SubSeq(chars, Len(chars) - Len(suffix) + 1, Len(chars)) = suffix
\* str.startswith
StartsWith(chars, prefix) ==
    /\ Len(chars) >= Len(prefix)
    /\ SubSeq(chars, 1, Len(prefix)) = prefix
\* prefix in chars
Contains(chars, part) ==
    \E i \in 1..(Len(chars) - Len(part) + 1) :
        SubSeq(chars, i, i + Len(part) - 1) = part
\* str.strip()
RECURSIVE Strip(_)
Strip(chars) ==
    IF chars = <<>> THEN <<>>
    ELSE IF Head(chars) \in {" ", "\n"} THEN Strip(Tail(chars))
    ELSE IF chars[Len(chars)] \in {" ", "\n"} THEN Strip(SubSeq(chars, 1, Len(chars) - 1))
    ELSE chars

DotVcd == <<".", "v", "c", "d">>
Dollar == <<"$">>
DollarDate == <<"$", "d", "a", "t", "e">>
DollarVersion == <<"$", "v", "e", "r", "s", "i", "o", "n">>

\* the empty-file check dropped
PreconditionsNoSizeCheck(f, parsers_available) ==
    IF ~parsers_available
      THEN ValidationError("VCD parsing libraries not available", None)
    ELSE IF f.path = None \/ f.path.s = <<>> \/ ~f.exists
      THEN ValidationError("File not found: ", f.path)
    ELSE IF ~EndsWith(Lower(f.path.s), DotVcd)
      THEN ValidationError("Invalid file format. Only VCD files are allowed.", None)
    ELSE None

\* lines 232-250: the exception the checks raise, None when all pass
Preconditions(f, parsers_available) ==
    IF ~parsers_available
      THEN ValidationError("VCD parsing libraries not available", None)
    ELSE IF f.path = None \/ f.path.s = <<>> \/ ~f.exists
      THEN ValidationError("File not found: ", f.path)
    ELSE IF f.size = 0
      THEN ValidationError("The uploaded file is empty", None)
    ELSE IF ~EndsWith(Lower(f.path.s), DotVcd)
      THEN ValidationError("Invalid file format. Only VCD files are allowed.", None)
    ELSE None

\* lines 253-266: the primary strategy; exc is what reaches "except Exception"
Primary(f, vcdvcd_module, loaded) ==
    IF vcdvcd_module = None
      THEN [calls |-> <<>>, value |-> None,
            exc |-> Exc("ImportError", "vcdvcd module is not available", None)]
    ELSE IF f.primary = Raises
      THEN [calls |-> <<"vcdvcd.VCDVCD">>, value |-> None,
            exc |-> Exc("Exception", "vcdvcd", None)]
    ELSE [calls |-> <<"vcdvcd.VCDVCD", "get_signal_data">>,
          value |-> get_signal_data(loaded, f.primary), exc |-> None]

\* a fallback parse that succeeded reported as a failure
FallbackSuccessRaises(f, vcd_parser_class) ==
    IF vcd_parser_class = None
      THEN [calls |-> <<"fallback">>, outcome |-> None,
            e2 |-> Exc("ImportError", "VcdParser is not available", None)]
    ELSE IF f.fallback = "open_error"
      THEN [calls |-> <<"fallback">>, outcome |-> None,
            e2 |-> Exc("OSError", "open", None)]
    ELSE IF f.fallback = "UnicodeDecodeError"
      THEN [calls |-> <<"fallback", "VcdParser.parse">>, e2 |-> None,
            outcome |-> RaiseOutcome(ValidationError(
                "The file contains invalid characters or is not a text file.", None))]
    ELSE [calls |-> <<"fallback", "VcdParser.parse">>, outcome |-> None,
          e2 |-> Exc("Exception", "VcdParser", None)]

\* lines 268-290: the fallback strategy; e2 is what reaches the second
\* "except Exception", outcome how the call ends otherwise
Fallback(f, vcd_parser_class) ==
    IF vcd_parser_class = None
      THEN [calls |-> <<"fallback">>, outcome |-> None,
            e2 |-> Exc("ImportError", "VcdParser is not available", None)]
    ELSE IF f.fallback = "open_error"
      THEN [calls |-> <<"fallback">>, outcome |-> None,
            e2 |-> Exc("OSError", "open", None)]
    ELSE IF f.fallback = "UnicodeDecodeError"
      THEN [calls |-> <<"fallback", "VcdParser.parse">>, e2 |-> None,
            outcome |-> RaiseOutcome(ValidationError(
                "The file contains invalid characters or is not a text file.", None))]
    ELSE IF f.fallback = "error"
      THEN [calls |-> <<"fallback", "VcdParser.parse">>, outcome |-> None,
            e2 |-> Exc("Exception", "VcdParser", None)]
    ELSE [calls |-> <<"fallback", "VcdParser.parse">>, e2 |-> None,
          outcome |-> ReturnOutcome(EmptyResult)]

\* lines 294-306: what the body of the inner try raises, None when nothing
HeaderCheck(f) ==
    IF f.first_line = Raises THEN Exc("OSError", "open", None)
    ELSE LET first_line == Strip(f.first_line.s) IN
      IF /\ ~StartsWith(first_line, Dollar)
         /\ ~Contains(first_line, DollarDate)
         /\ ~Contains(first_line, DollarVersion)
        THEN ValidationError(
               "The file doesn't appear to be a valid VCD file. Missing proper header.",
               None)
        ELSE None

\* lines 293-311: the diagnostic pass; "except Exception as e3" catches what
\* the inner try raises, the ValidationError of line 304 included
Diagnose(f, e2) ==
    LET e3 == HeaderCheck(f) IN
      IF e3 # None /\ e3.type \notin ExceptionClasses
        THEN RaiseOutcome(e3)
        ELSE RaiseOutcome(ValidationError("Failed to parse file: ", Str(<<e2.text>>)))

\* the files a request may name
Paths == {None, Str(<<>>), Str(<<"a", ".", "v", "c", "d">>),
          Str(<<"A", ".", "V", "C", "D">>), Str(<<"a", ".", "t", "x", "t">>),
          Str(<<"v", "c", "d">>), Str(<<"a", ".", "v", "c", "d", ".", "g", "z">>)}
FirstLines ==
    {Str(DollarDate), Str(DollarVersion), Str(<<"x", " ">> \o DollarDate),
     Str(<<"x">> \o DollarVersion \o <<"\n">>), Str(<<"$", "x">>),
     Str(<<" ", "$", "x", "\n">>), Str(<<"x">>), Str(<<"d", "a", "t", "e">>),
     Str(<<>>), Raises}
PrimaryResults ==
    {Raises,
     Vcd(Raises, OneNs, [nm \in ValidNames |-> OneSample]),
     Vcd(List(<<Str(NameA)>>), Raises, [nm \in ValidNames |-> OneSample]),
     Vcd(List(<<>>), OneNs, [nm \in ValidNames |-> OneSample]),
     Vcd(List(<<Str(NameB), Str(NameA)>>), OneNs, [nm \in ValidNames |-> OneSample]),
     Vcd(List(<<Str(NameA)>>), OneNs, [nm \in ValidNames |-> Raises])}
FallbackResults == {"ok", "UnicodeDecodeError", "error", "open_error"}

File(path, exists, size, primary, fallback, first_line) ==
    [k |-> "file", path |-> path, exists |-> exists, size |-> size,
     primary |-> primary, fallback |-> fallback, first_line |-> first_line]

Files ==
    {File(path, exists, size, Raises, "error", Str(<<"x">>)) :
        path \in Paths, exists \in BOOLEAN, size \in {0, 1}}
    \cup {File(path, TRUE, 1, primary, fallback, first_line) :
            path \in {Str(<<"a", ".", "v", "c", "d">>), Str(<<"A", ".", "V", "C", "D">>)},
            primary \in PrimaryResults, fallback \in FallbackResults,
            first_line \in FirstLines}

\* lines 230-250: the call is entered, the parsers are loaded, the file is
\* checked
ParseCall ==
    /\ ppc = "idle"
    /\ nreq < MaxRequests
    /\ \E f \in Files :
        LET loaded == ensure_parsers_loaded(PARSERS_AVAILABLE, vcdvcd, VcdParser,
                                            settingsEnabled, libsImportable)
            exc == Preconditions(f, loaded.ret[1])
        IN /\ file' = f
           /\ PARSERS_AVAILABLE' = loaded.avail
           /\ vcdvcd' = loaded.mod
           /\ VcdParser' = loaded.cls
           /\ plocals' = [parsers_available |-> loaded.ret[1],
                          vcdvcd_module |-> loaded.ret[2],
                          vcd_parser_class |-> loaded.ret[3],
                          e2 |-> None]
           /\ calls' = <<>>
           /\ IF exc # None
                THEN outcome' = RaiseOutcome(exc) /\ ppc' = "done"
                ELSE outcome' = None /\ ppc' = "primary"
    /\ nreq' = nreq + 1
    /\ UNCHANGED <<envVars, loadVars, gsdVars, viewVars>>

\* lines 252-266
ParsePrimary ==
    /\ ppc = "primary"
    /\ LET loaded == ensure_parsers_loaded(PARSERS_AVAILABLE, vcdvcd, VcdParser,
                                           settingsEnabled, libsImportable)
           r == Primary(file, plocals.vcdvcd_module, loaded.ret)
       IN /\ calls' = calls \o r.calls
          /\ IF r.exc # None /\ r.exc.type \in ExceptionClasses
               THEN ppc' = "fallback" /\ outcome' = outcome
               ELSE ppc' = "done" /\ outcome' = ReturnOutcome(r.value)
    /\ UNCHANGED <<globalVars, envVars, loadVars, file, plocals, nreq, gsdVars, viewVars>>

\* lines 267-290
ParseFallback ==
    /\ ppc = "fallback"
    /\ LET r == Fallback(file, plocals.vcd_parser_class)
       IN /\ calls' = calls \o r.calls
          /\ IF r.e2 # None
               THEN /\ ppc' = "diagnose"
                    /\ plocals' = [plocals EXCEPT !.e2 = r.e2]
                    /\ outcome' = outcome
               ELSE /\ ppc' = "done"
                    /\ plocals' = plocals
                    /\ outcome' = r.outcome
    /\ UNCHANGED <<globalVars, envVars, loadVars, file, nreq, gsdVars, viewVars>>

\* lines 290-311
ParseDiagnose ==
    /\ ppc = "diagnose"
    /\ outcome' = Diagnose(file, plocals.e2)
    /\ ppc' = "done"
    /\ UNCHANGED <<globalVars, envVars, loadVars, file, plocals, calls, nreq, gsdVars, viewVars>>

\* the call has ended and its locals are gone; the process is ready for the
\* next request
ParseReturn ==
    /\ ppc = "done"
    /\ ppc' = "idle"
    /\ file' = None
    /\ plocals' = None
    /\ calls' = <<>>
    /\ outcome' = None
    /\ UNCHANGED <<globalVars, envVars, loadVars, nreq, gsdVars, viewVars>>

InitParse == GlobalsInit /\ EnvInit /\ LoadIdle /\ ParseIdle /\ GsdIdle /\ ViewIdle

NextParse ==
    \/ ParseCall
    \/ ParsePrimary
    \/ ParseFallback
    \/ ParseDiagnose
    \/ ParseReturn

SpecParse == InitParse /\ [][NextParse]_vars

----------------------------------------------------------------------------
(* VCDFileUploadForm (forms.py) and the index view (views.py, 314-373) *)

\* POST requests the process handles
MaxPosts == 2

\* forms.py line 15: 10 * 1024 * 1024
SizeLimit == 10 * 1024 * 1024

\* parse_vcd_file run to completion on a file: the decoders it invoked and
\* the way it ended
parse_vcd_file(f, loaded) ==
    LET exc == Preconditions(f, loaded[1]) IN
      IF exc # None THEN [calls |-> <<>>, outcome |-> RaiseOutcome(exc)]
      ELSE LET p == Primary(f, loaded[2], loaded) IN
        IF p.exc = None \/ p.exc.type \notin ExceptionClasses
          THEN [calls |-> p.calls, outcome |-> ReturnOutcome(p.value)]
        ELSE LET fb == Fallback(f, loaded[3]) IN
          IF fb.e2 = None
            THEN [calls |-> p.calls \o fb.calls, outcome |-> fb.outcome]
            ELSE [calls |-> p.calls \o fb.calls, outcome |-> Diagnose(f, fb.e2)]

\* os.path.splitext(name)[1]: from the last dot on, unless the dot leads
\* the name
SplitExt(chars) ==
    LET dots == {i \in 1..Len(chars) : chars[i] = "."} IN
      IF dots = {} THEN <<>>
      ELSE LET last == CHOOSE i \in dots : \A j \in dots : j <= i IN
        IF \A i \in 1..last : chars[i] = "." THEN <<>>
        ELSE SubSeq(chars, last, Len(chars))

DollarTimescale == <<"$", "t", "i", "m", "e", "s", "c", "a", "l", "e">>
DollarScope == <<"$", "s", "c", "o", "p", "e">>
DollarVar == <<"$", "v", "a", "r">>
\* forms.py line 43
vcd_markers == {DollarDate, DollarVersion, DollarTimescale, DollarScope, DollarVar}

\* forms.py lines 14-16: the validator of the field is a lambda whose value
\* is a ValidationError above the limit and None otherwise; it raises
\* nothing
SizeValidator(f) ==
    IF f.size > SizeLimit
      THEN ReturnOutcome(ValidationError("File size too large", None))
      ELSE ReturnOutcome(None)

\* forms.py lines 10-18: the field runs its validators and keeps the
\* ValidationErrors they raise; what a validator returns is dropped
RunValidators(f) ==
    LET r == SizeValidator(f) IN
      IF r.k = "raise" THEN <<r.exc>> ELSE <<>>

\* forms.py lines 38-69: the header check; "except Exception" wraps the
\* ValidationErrors raised inside the try
HeaderErrors(f) ==
    IF f.header = Raises
      THEN ValidationError(
             "The file contains invalid characters or is not a text file", None)
    ELSE LET header == f.header.s
             inner ==
               IF \A marker \in vcd_markers : ~Contains(header, marker)
                 THEN ValidationError(
                        "Invalid VCD file format - missing required header section", None)
               ELSE IF \/ ~StartsWith(header, Dollar)
                       \/ (~Contains(header, DollarDate) /\ ~Contains(header, DollarVersion))
                 THEN ValidationError(
                        "Invalid VCD file format - the file does not appear to be a VCD file",
                        None)
               ELSE None
         IN IF inner = None THEN None
            ELSE ValidationError("Error validating file: ", Str(<<inner.text>>))

\* forms.py lines 20-71: the exception clean_vcd_file raises, None when it
\* returns the file
clean_vcd_file(f) ==
    IF f.name = <<>>
      THEN ValidationError("No file was submitted", None)
    ELSE IF f.size = 0
      THEN ValidationError("The uploaded file is empty", None)
    ELSE IF Lower(SplitExt(f.name)) # DotVcd
      THEN ValidationError("Only VCD files are allowed (.vcd extension)", None)
    ELSE HeaderErrors(f)

\* form.is_valid(): the errors of the form; clean_vcd_file runs only on a
\* field that passed its validators
FormErrors(f) ==
    IF RunValidators(f) # <<>> THEN RunValidators(f)
    ELSE IF clean_vcd_file(f) # None THEN <<clean_vcd_file(f)>>
    ELSE <<>>

\* models.py lines 6-13 and views.py line 328: the file as stored, under a
\* generated name that keeps the extension
\* readline(): the characters up to and including the first newline
FirstLine(chars) ==
    LET ends == {i \in 1..Len(chars) : chars[i] = "\n"} IN
      IF ends = {} THEN chars
      ELSE SubSeq(chars, 1, CHOOSE i \in ends : \A j \in ends : i <= j)

StoredFile(f) ==
    File(Str(<<"u">> \o SplitExt(f.name)), TRUE, f.size, f.primary, f.fallback,
         IF f.header = Raises THEN Raises ELSE Str(FirstLine(f.header.s)))

Upload(name, size, header, primary, fallback) ==
    [k |-> "upload", name |-> name, size |-> size, header |-> header,
     primary |-> primary, fallback |-> fallback]

UploadNames ==
    {<<"a", ".", "v", "c", "d">>, <<"A", ".", "V", "C", "D">>,
     <<"a", ".", "t", "x", "t">>, <<".", "v", "c", "d">>,
     <<"a", ".", "v", "c", "d", ".", "g", "z">>}
UploadSizes == {0, 1, SizeLimit, SizeLimit + 1}
UploadHeaders ==
    {Str(DollarDate), Str(DollarVersion \o <<" ", "x", "\n">> \o DollarVar),
     Str(<<"x", " ">> \o DollarDate), Str(DollarScope), Str(<<"x">>), Str(<<>>),
     Raises}
Uploads ==
    {Upload(name, size, header, primary, fallback) :
        name \in UploadNames, size \in UploadSizes, header \in UploadHeaders,
        primary \in {Raises,
                     Vcd(List(<<Str(NameA)>>), OneNs, [nm \in ValidNames |-> OneSample])},
        fallback \in {"ok", "error"}}

\* str(e) of a ValidationError: the list of its messages
StrOf(e) == <<"['", e.text, e.detail, "']">>

EmptySignals == [signals |-> <<>>, timescale |-> [value |-> 1, unit |-> NS]]

\* views.py lines 317-371: a POST
IndexPost ==
    /\ nposts < MaxPosts
    /\ \E f \in Uploads :
        LET errors == FormErrors(f)
            loaded == ensure_parsers_loaded(PARSERS_AVAILABLE, vcdvcd, VcdParser,
                                            settingsEnabled, libsImportable)
            parsed == parse_vcd_file(StoredFile(f), loaded.ret)
        IN /\ upload' = f
           /\ IF errors # <<>>
                THEN /\ response' = [k |-> "json", success |-> FALSE,
                                     message |-> <<"Invalid form submission">>,
                                     errors |-> errors, signals |-> None]
                     /\ UNCHANGED <<db, globalVars>>
                ELSE /\ PARSERS_AVAILABLE' = loaded.avail
                     /\ vcdvcd' = loaded.mod
                     /\ VcdParser' = loaded.cls
                     /\ IF parsed.outcome.k = "return"
                          THEN /\ db' = Append(db, [original_name |-> f.name,
                                                    size |-> f.size, processed |-> TRUE])
                               /\ response' =
                                    [k |-> "json", success |-> TRUE,
                                     message |-> <<"File uploaded and processed successfully">>,
                                     errors |-> <<>>, signals |-> parsed.outcome.value]
                          ELSE /\ db' = Append(db, [original_name |-> f.name,
                                                    size |-> f.size, processed |-> FALSE])
                               /\ response' =
                                    [k |-> "json", success |-> FALSE,
                                     message |->
                                       IF parsed.outcome.exc.type = "ValidationError"
                                         THEN StrOf(parsed.outcome.exc)
                                         ELSE <<"Server error processing file">>,
                                     errors |-> <<>>, signals |-> EmptySignals]
    /\ nposts' = nposts + 1
    /\ UNCHANGED <<envVars, loadVars, parseVars, gsdVars>>

\* views.py line 373: a GET renders the page
IndexGet ==
    /\ response' = [k |-> "html", template |-> "waveform/index.html"]
    /\ UNCHANGED <<globalVars, envVars, loadVars, parseVars, gsdVars,
                   upload, db, nposts>>

InitIndex == GlobalsInit /\ EnvInit /\ LoadIdle /\ ParseIdle /\ GsdIdle /\ ViewIdle

NextIndex ==
    \/ IndexPost
    \/ IndexGet

SpecIndex == InitIndex /\ [][NextIndex]_vars

----------------------------------------------------------------------------
(* Vocabulary of the statements about parse_vcd_file *)

Invoked(call) == \E i \in 1..Len(calls) : calls[i] = call

\* the preconditions of the call on the file: a path that exists, a size
\* that is not zero, a name that ends in .vcd whatever its case
PathGiven == file.path # None /\ file.path.s # <<>>
PreconditionsHold ==
    /\ PathGiven
    /\ file.exists
    /\ file.size > 0
    /\ EndsWith(Lower(file.path.s), DotVcd)

\* the primary strategy raised: in the constructor of the reader, or inside
\* get_signal_data while reading the names or the timescale
PrimaryRaised ==
    /\ Invoked("vcdvcd.VCDVCD")
    /\ file.primary = Raises \/ GsdRaised(file.primary)

\* the first line carries a header marker
HasHeaderMarker ==
    LET line == Strip(file.first_line.s)
    IN \/ StartsWith(line, Dollar)
       \/ Contains(line, DollarDate)
       \/ Contains(line, DollarVersion)

\* primary and fallback both failed, VcdParser.parse with an error that is
\* not a UnicodeDecodeError, and the first line of the file can be read
BothFailed ==
    /\ ppc = "done"
    /\ file # None
    /\ Invoked("VcdParser.parse")
    /\ file.fallback = "error"
    /\ file.first_line # Raises

DegradedResult == [signals |-> <<>>, timescale |-> [value |-> 1, unit |-> <<"n", "s">>]]

----------------------------------------------------------------------------
(* C1: once the preconditions have passed, any exception raised in the     *)
(* primary strategy (constructing the vcdvcd reader, or extracting signals *)
(* or timescale in get_signal_data) leads to the fallback being attempted  *)
(* before parse_vcd_file returns or raises.                                *)
C1_PrimaryErrorReachesFallback ==
    (ppc = "done" /\ file # None /\ PrimaryRaised) => Invoked("fallback")

(* C2: when both decoders fail and the first line carries no header marker *)
(* the error raised is the missing-header message; the generic "Failed to  *)
(* parse file" message is raised only when a marker is present.            *)
C2_MissingHeaderPrecedence ==
    BothFailed =>
        /\ outcome.k = "raise"
        /\ outcome.exc.type = "ValidationError"
        /\ IF HasHeaderMarker
             THEN outcome.exc.text = "Failed to parse file: "
             ELSE outcome.exc.text =
                    "The file doesn't appear to be a valid VCD file. Missing proper header."

(* C3: when the primary decoder fails and the fallback decoder parses the  *)
(* file without raising, parse_vcd_file returns the degraded result        *)
(* {signals: [], timescale: {1, ns}}; the fallback path never returns      *)
(* per-signal data and never turns a successful parse into an error.       *)
C3_FallbackSuccessDegraded ==
    (ppc = "done" /\ file # None /\ Invoked("fallback")) =>
        /\ file.fallback = "ok" => outcome = ReturnOutcome(DegradedResult)
        /\ outcome.k = "return" => outcome.value.signals = <<>>

\* the reader's constructor raised, VcdParser.parse went through
C3_Witness ==
    /\ ppc = "done"
    /\ file # None
    /\ file.primary = Raises
    /\ file.fallback = "ok"
    /\ calls = <<"vcdvcd.VCDVCD", "fallback", "VcdParser.parse">>
    /\ outcome.k = "return"

(* C4: no decoder is constructed or called unless the path exists, the     *)
(* size is not zero and the name ends in .vcd (case-insensitive):          *)
(* otherwise the call ends in a ValidationError with no decoder invoked,   *)
(* for a zero-byte file (the libraries being available) the empty-file one.*)
C4_NoDecoderBeforePreconditions ==
    (ppc # "idle" /\ file # None) =>
        /\ ~PreconditionsHold =>
              /\ calls = <<>>
              /\ ppc = "done"
              /\ outcome.k = "raise"
              /\ outcome.exc.type = "ValidationError"
        /\ (PathGiven /\ file.exists /\ file.size = 0 /\ plocals.parsers_available) =>
              outcome.exc.text = "The uploaded file is empty"

\* a zero-byte a.vcd: the empty-file error, no decoder invoked
C4_Witness ==
    /\ ppc = "done"
    /\ file # None
    /\ file.path = Str(<<"a", ".", "v", "c", "d">>)
    /\ file.exists
    /\ file.size = 0
    /\ plocals.parsers_available
    /\ calls = <<>>
    /\ outcome = RaiseOutcome(ValidationError("The uploaded file is empty", None))

----------------------------------------------------------------------------
(* Vocabulary of the statements about get_signal_data *)

\* get_signal_data has returned from its main path: the decoder reported
\* names and a timescale without raising
GsdRan ==
    /\ epc = "done"
    /\ vcd # None
    /\ vcd.get_signals # Raises
    /\ vcd.get_signals.s # <<>>
    /\ vcd.get_timescale # Raises

DeclaredNames == vcd.get_signals.s
\* entry n of the declared names is a name
IsName(n) == DeclaredNames[n].k = "str" /\ DeclaredNames[n].s # <<>>
\* the decoder's object for declared name n
SignalAt(n) == vcd.sigs[DeclaredNames[n].s]
\* entry n names a signal the decoder holds
IsSignal(n) == IsName(n) /\ SignalAt(n).k = "signal"
\* its records (none when it has no tv attribute)
TvOf(n) == IF SignalAt(n).tv = Absent THEN <<>> ELSE SignalAt(n).tv.s
\* the places of the result that declared name n produced
EntriesOf(n) == {i \in 1..Len(gsd.signals) : gsd.signals[i].idx = n}

\* a well-formed record: a pair whose time is a number
WellFormed(r) == r.k = "tuple" /\ Len(r.items) = 2 /\ r.items[1].k = "num"
\* the raw times, and the values, of the well-formed records of tv, in order
RawTimes(tv) ==
    LET good == SelectSeq(tv, WellFormed)
    IN [i \in 1..Len(good) |-> good[i].items[1].v]
RawValues(tv) ==
    LET good == SelectSeq(tv, WellFormed)
    IN [i \in 1..Len(good) |-> good[i].items[2]]
TimesOf(data) == [i \in 1..Len(data) |-> data[i].time]
\* times multiplied by a factor
Scaled(times, factor) == [i \in 1..Len(times) |-> Mul(times[i], factor)]
\* the scale factor of the file's timescale
FileScale == ScaleFactor(ParseTimescale(TimescaleDict(vcd.get_timescale)))

----------------------------------------------------------------------------
(* C6: in every result of get_signal_data, whatever the order in which the *)
(* decoder reports the names, the signals are in non-decreasing order of   *)
(* name, entries with equal names keep their declaration order, and every  *)
(* declared signal has its own entry (no deduplication).                   *)
C6_SortedByNameStable ==
    epc = "done" =>
        /\ \A i, j \in 1..Len(gsd.signals) :
              i < j =>
                /\ ~StrLess(gsd.signals[j].name, gsd.signals[i].name)
                /\ gsd.signals[i].name = gsd.signals[j].name
                     => gsd.signals[i].idx < gsd.signals[j].idx
        /\ GsdRan =>
              /\ \A n \in 1..Len(DeclaredNames) :
                    IsSignal(n) => Cardinality(EntriesOf(n)) = 1
              /\ Len(gsd.signals)
                   = Cardinality({n \in 1..Len(DeclaredNames) : IsSignal(n)})

\* b, a, b declared in that order come out as a, b, b with the two b in
\* declaration order
C6_Witness ==
    /\ GsdRan
    /\ DeclaredNames = <<Str(NameB), Str(NameA), Str(NameB)>>
    /\ Len(gsd.signals) = 3
    /\ [i \in 1..3 |-> gsd.signals[i].idx] = <<2, 1, 3>>

(* C7: a signal whose tv holds N well-formed pairs among malformed records *)
(* (wrong arity, not a list or tuple, non-numeric time) gets exactly those *)
(* N samples (each time scaled by the file's scale factor), in stream      *)
(* order; the malformed records cost neither the signal nor any other      *)
(* signal.                                                                 *)
C7_MalformedRecordsSkipped ==
    GsdRan =>
        \A n \in 1..Len(DeclaredNames) :
            (IsSignal(n) /\ SignalAt(n).tv # Absent) =>
                \E i \in EntriesOf(n) :
                    LET data == gsd.signals[i].data
                        tv   == SignalAt(n).tv.s
                    IN /\ gsd.signals[i].name = DeclaredNames[n].s
                       /\ Len(data) = Len(SelectSeq(tv, WellFormed))
                       /\ TimesOf(data) = Scaled(RawTimes(tv), FileScale)
                       /\ \A m \in 1..Len(data) :
                             data[m].value = Coerce(RawValues(tv)[m])

\* a: good, malformed, good; its sibling b is kept too
C7_Witness ==
    /\ GsdRan
    /\ DeclaredNames = <<Str(NameB), Str(NameA)>>
    /\ vcd.sigs[NameA] = Signal(List(<<Good1, BadTime, Good2>>))
    /\ vcd.sigs[NameB] = OneSample
    /\ Len(gsd.signals) = 2
    /\ Len(gsd.signals[1].data) = 2
    /\ Len(gsd.signals[2].data) = 1

(* C8: a declared signal with no value-change records (no tv, or an empty  *)
(* tv) still has an entry in the result, with data [].                     *)
C8_EmptySignalKept ==
    GsdRan =>
        \A n \in 1..Len(DeclaredNames) :
            (IsSignal(n) /\ SignalAt(n).tv \in {Absent, List(<<>>)}) =>
                \E i \in EntriesOf(n) :
                    /\ gsd.signals[i].name = DeclaredNames[n].s
                    /\ gsd.signals[i].data = <<>>

\* b has an empty tv beside a sibling with samples, and is in the result
C8_Witness ==
    /\ GsdRan
    /\ DeclaredNames = <<Str(NameA), Str(NameB)>>
    /\ vcd.sigs[NameB] = Signal(List(<<>>))
    /\ vcd.sigs[NameA] = Signal(List(<<Good1, Good2>>))
    /\ Len(gsd.signals) = 2
    /\ gsd.signals[2].data = <<>>

\* the units the table of get_signal_data knows
UnitKeys == {<<"s">>, <<"m", "s">>, <<"u", "s">>, <<"MICRO", "s">>, NS, PS, <<"f", "s">>}

\* the decoder reported a value/magnitude/unit timescale whose unit, once
\* lower-cased, is none of the units of the table
UnknownUnitCase ==
    /\ GsdRan
    /\ vcd.get_timescale.k = "dict"
    /\ ~HasKey(vcd.get_timescale, "timescale")
    /\ HasKey(vcd.get_timescale, "unit")
    /\ Lower(PyStr(vcd.get_timescale.unit)) \notin UnitKeys

(* C9 as stated: whenever the timescale's unit is not a recognized unit,   *)
(* the scale factor is exactly 1 for every declared value and magnitude:   *)
(* each output time equals the raw timestamp.                              *)
C9_UnknownUnitFactorOne ==
    UnknownUnitCase =>
        \A n \in 1..Len(DeclaredNames) :
            IsSignal(n) =>
                \E i \in EntriesOf(n) :
                    TimesOf(gsd.signals[i].data) = RawTimes(TvOf(n))

\* value * magnitude as the dictionary declares them: 1 for an absent value,
\* 1 when the value or the magnitude is not a number
DeclaredValue(ts) ==
    IF HasKey(ts, "value") /\ ts.value.k # "num" THEN Dec(1, 0)
    ELSE IF HasKey(ts, "magnitude") /\ ts.magnitude.k # "num" THEN Dec(1, 0)
    ELSE Mul(IF HasKey(ts, "value") THEN ts.value.v ELSE Dec(1, 0),
             IF HasKey(ts, "magnitude") THEN ts.magnitude.v ELSE Dec(1, 0))

(* C9 as amended: for a value/magnitude/unit timescale whose lower-cased   *)
(* unit is none of s, ms, us, micro-s, ns, ps, fs, no error is raised and  *)
(* the unit multiplier is 1: each output time equals the raw timestamp     *)
(* times the declared value times the declared magnitude (a value or       *)
(* magnitude that is not a number counts as 1).                            *)
C9_UnknownUnitMultiplierOne ==
    UnknownUnitCase =>
        \A n \in 1..Len(DeclaredNames) :
            IsSignal(n) =>
                \E i \in EntriesOf(n) :
                    TimesOf(gsd.signals[i].data)
                      = Scaled(RawTimes(TvOf(n)),
                               DeclaredValue(vcd.get_timescale))

\* unit "xs", value 10, magnitude 1000: raw 5000 comes out as 5000 * 10000
C9_Witness ==
    /\ UnknownUnitCase
    /\ vcd.get_timescale.unit = Str(<<"x", "s">>)
    /\ vcd.get_timescale.value = Num(10, 0)
    /\ vcd.get_timescale.magnitude = Num(1000, 0)
    /\ Len(gsd.signals) = 1
    /\ TimesOf(gsd.signals[1].data) = <<Dec(5, 7)>>

\* ns per unit, as the table of the specification gives it
NsPerUnit(u) ==
    CASE u = <<"s">> -> Dec(1, 9)
      [] u = <<"m", "s">> -> Dec(1, 6)
      [] u = <<"u", "s">> -> Dec(1, 3)
      [] u = NS -> Dec(1, 0)
      [] u = PS -> Dec(1, -3)
      [] u = <<"f", "s">> -> Dec(1, -6)

SixUnits == {<<"s">>, <<"m", "s">>, <<"u", "s">>, NS, PS, <<"f", "s">>}
NumberOrAbsent(x) == x = Absent \/ x.k = "num"

SecondsCase ==
    /\ GsdRan
    /\ vcd.get_timescale.k = "dict"
    /\ HasKey(vcd.get_timescale, "timescale")
    /\ vcd.get_timescale.timescale.k = "num"
    /\ vcd.get_timescale.timescale.v
         \in {Dec(1, -12), Dec(1, -11), Dec(1, -10), Dec(1, -9)}

UnitCase ==
    /\ GsdRan
    /\ vcd.get_timescale.k = "dict"
    /\ ~HasKey(vcd.get_timescale, "timescale")
    /\ HasKey(vcd.get_timescale, "unit")
    /\ vcd.get_timescale.unit.k = "str"
    /\ Lower(vcd.get_timescale.unit.s) \in SixUnits
    /\ NumberOrAbsent(vcd.get_timescale.value)
    /\ NumberOrAbsent(vcd.get_timescale.magnitude)

\* the factor the statement gives for the declared timescale: seconds per
\* tick in ns, or value * magnitude * ns per unit
StatedFactor ==
    IF SecondsCase THEN Mul(vcd.get_timescale.timescale.v, Dec(1, 9))
    ELSE Mul(DeclaredValue(vcd.get_timescale),
             NsPerUnit(Lower(vcd.get_timescale.unit.s)))

(* C10: for the recognized timescale encodings (seconds 1e-12, 1e-11,      *)
(* 1e-10, 1e-9, and value/magnitude dictionaries with a unit among s, ms,  *)
(* us, ns, ps, fs) every output time is raw * value * magnitude * ns per   *)
(* unit, with s=1e9, ms=1e6, us=1e3, ns=1, ps=1e-3, fs=1e-6.               *)
C10_RecognizedTimescaleScaling ==
    (SecondsCase \/ UnitCase) =>
        \A n \in 1..Len(DeclaredNames) :
            IsSignal(n) =>
                \E i \in EntriesOf(n) :
                    TimesOf(gsd.signals[i].data)
                      = Scaled(RawTimes(TvOf(n)), StatedFactor)

\* timescale 1e-12: raw tick 5000 comes out as 5 ns
C10_Witness ==
    /\ SecondsCase
    /\ vcd.get_timescale.timescale = Num(1, -12)
    /\ vcd.sigs[NameA] = Signal(List(<<Good2>>))
    /\ Len(gsd.signals) = 1
    /\ TimesOf(gsd.signals[1].data) = <<Dec(5, 0)>>

\* the value and unit get_signal_data resolves the file's timescale to
ResolvedTimescale == ParseTimescale(TimescaleDict(vcd.get_timescale))

(* C11: every sample of every result of get_signal_data has a non-negative *)
(* time, and the resolved timescale value the scale factor is computed     *)
(* from is strictly positive, for every timescale dictionary the decoder   *)
(* can report (zero or negative value, magnitude or seconds included),     *)
(* the raw timestamps being non-negative.                                  *)
C11_NonNegativeTimes ==
    GsdRan =>
        /\ ResolvedTimescale.value.m > 0
        /\ \A i \in 1..Len(gsd.signals) :
              \A j \in 1..Len(gsd.signals[i].data) :
                  gsd.signals[i].data[j].time.m >= 0

(* C12: VCDFileUploadForm enforces its 10 MB limit: for every uploaded    *)
(* file of more than 10 * 1024 * 1024 bytes the form is invalid with the   *)
(* failure "File size too large", so the index view never saves or parses  *)
(* such a file.                                                            *)
C12_SizeLimitEnforced ==
    /\ \A i \in 1..Len(db) : db[i].size <= 10 * 1024 * 1024
    /\ (response # None /\ response.k = "json" /\ upload.size > 10 * 1024 * 1024) =>
          /\ response.message = <<"Invalid form submission">>
          /\ \E i \in 1..Len(response.errors) :
                response.errors[i].text = "File size too large"

=============================================================================
